---- MODULE Spec2Model ----
(***************************************************************************)
(* baudrate: serial baud-rate detection (src/src/baudrate.c, baudrate.h).  *)
(*                                                                         *)
(* The process has two threads, main() and read_serial(), and two signal   *)
(* handlers, sigint_handler() and sigalrm_handler(), which the kernel runs *)
(* on top of whichever thread does not block the signal.  A thread is a    *)
(* stack of program points: the topmost is the one executing, a call or a  *)
(* signal delivery pushes, a return pops.                                  *)
(*                                                                         *)
(* A step is one statement of the source, or a short run of consecutive    *)
(* statements of one thread taken together to keep the exploration finite: *)
(* the entry of a handler with its first statements (DeliverSigint,        *)
(* DeliverSigalrm, EnterCleanup), the join with the two restores           *)
(* (CleanupRestore), tcsetattr with the message that follows it            *)
(* (UpdateApply), the configuration block with the frees (CleanupBlock),   *)
(* read() with the classification of the byte (ReadByte).  A cancellation  *)
(* that the reader could act on inside such a run is acted on at the next  *)
(* cancellation point instead.                                             *)
(*                                                                         *)
(* The build is the Linux one: pthread_join in cleanup() is compiled in    *)
(* (#ifdef __linux, baudrate.c:479-482).  The run is verbose (no -q) and   *)
(* without -n; the prompt of print_current_minicom_config() is skipped     *)
(* (-p) or answered with an empty line, so that the configuration block    *)
(* goes to stdout and minicom is not started.                              *)
(***************************************************************************)
EXTENDS Integers, Sequences, FiniteSets, TLC

VARIABLES
    proc,       \* "running", or how the process ended
    config,     \* struct globals config (baudrate.h:27-57)
    stack,      \* per thread: the stack of program points
    pth,        \* the reader thread: lifecycle and pending cancellation
    cl,         \* locals of cli(): b
    rd,         \* locals of read_serial(): buffer, ascii, punctuation, ...
    os,         \* the world outside: link, console, timer, signals
    obs         \* history: counters and snapshots the properties refer to

vars == <<proc, config, stack, pth, cl, rd, os, obs>>

(***************************************************************************)
(* Bounds of the exploration.                                              *)
(***************************************************************************)
NumRates      == 3   \* rows of BAUD_RATES compiled in
MaxTimeouts   == 3   \* timer expirations
MaxBytes      == 3   \* bytes the link delivers
MaxKeys       == 3   \* operator keypresses
MaxInterrupts == 1   \* operator interrupts (Ctrl+C)
MaxEvents     == 4   \* inputs of all four kinds together
MaxRun        == 5   \* bytes the link delivers in SpecScorer
CountModulus  == 8   \* width kept of timeout_count and of the tallies

(***************************************************************************)
(* Constants of the program.                                               *)
(***************************************************************************)
DEFAULT_WAIT_PERIOD    == 5
UP_ARROW   == 65     \* 'A'
DOWN_ARROW == 66     \* 'B'
ESC        == 27     \* '\x1B'
LBRACKET   == 91     \* '\x5B'

\* The table of baudrate.h:69-100, by description; the rows compiled in are
\* its first NumRates (rows are added or removed by editing the header).
AllRates == <<"1200", "1800", "2400", "4800", "9600", "19200", "38400",
              "57600", "115200">>
BAUD_RATES == [i \in 0 .. (NumRates - 1) |->
                  IF i + 1 <= Len(AllRates) THEN AllRates[i + 1] ELSE "rate"]
BAUD_RATES_SIZE == NumRates
DEFAULT_BAUD_RATES_INDEX == BAUD_RATES_SIZE - 1

Threads == {"main", "reader"}

\* Values of a struct termios, as far as the program touches it: the line
\* flags and the speed.  Zero is the memset() value of config (main:28).
ZeroTermios == [flags |-> "zero", speed |-> "B0"]
OrigLink    == [flags |-> "orig", speed |-> "orig"]
OrigConsole == [flags |-> "orig", speed |-> "orig"]

\* Inputs: -m, -c <num>, -t <seconds>; bytes on the link; keys on stdin.
Modes       == {TRUE, FALSE}
Thresholds  == {3}
WaitPeriods == {0, DEFAULT_WAIT_PERIOD}
Bytes       == {0, 32, 46, 97}
ScorerThresholds == {-1, 0, 3, 5}
ScorerBytes == {0, 32, 46, 97, 98}
Keys        == {117, 85, 100, 68, UP_ARROW, DOWN_ARROW, ESC, LBRACKET, 120}

(***************************************************************************)
(* Stack helpers.                                                          *)
(***************************************************************************)
Top(t) == stack[t][Len(stack[t])]
At(t, l) == proc = "running" /\ stack[t] # <<>> /\ Top(t) = l
SetTop(s, l) == [s EXCEPT ![Len(s)] = l]
Goto(t, l) == stack' = [stack EXCEPT ![t] = SetTop(@, l)]
Call(t, ret, entry) == stack' = [stack EXCEPT ![t] = Append(SetTop(@, ret), entry)]
Return(t) == stack' = [stack EXCEPT ![t] = SubSeq(@, 1, Len(@) - 1)]
InStack(t, ls) == \E i \in 1 .. Len(stack[t]) : stack[t][i] \in ls

\* BAUD_RATES[i].desc; an index outside the table reads whatever lies there.
Desc(i) == IF i \in 0 .. (BAUD_RATES_SIZE - 1) THEN BAUD_RATES[i] ELSE "garbage"

\* A signal is blocked in a thread while its own handler runs there
\* (sa_mask is empty and sa_flags is 0, main:99-109).
IntFrames  == {"i_exit"}
AlrmFrames == {"a_rearm"}
Blocked(t, sig) ==
    IF sig = "SIGINT" THEN InStack(t, IntFrames) ELSE InStack(t, AlrmFrames)

\* History, for the properties: it is written and never read by the program.
\*   interrupts, keys, nread, expirations
\*                             inputs consumed so far
\*   applies                   baud rates applied (tcsetattr in update)
\*   cleanups, restores, stdins, closes
\*                             cleanup() entries; link and console restores;
\*                             close() calls
\*   linkBack, consoleBack     what the last restore wrote back
\*   summary, block            the indices named by "Detected baud rate" and
\*                             by the configuration block, in order
\*   rx                        the bytes read (SpecScorer only)
\*   readRate, readIdx         the link's rate and config.baud_index when
\*                             the byte under verdict was read
\*   stale                     the counters hold bytes read under a rate the
\*                             link has left since
\*   mixed                     the byte under verdict was counted on top of
\*                             stale counters
\*   confirmed, confirmRate, confirmIdx
\*                             the verdict was reached; readRate and readIdx
\*                             of the confirming byte
\*   h0                        index, applies and timeout_count at the entry
\*                             of the running sigalrm_handler
\*   key                       the key cli() is processing
\*   arrow, a0                 the keys typed last, as far as they begin an
\*                             arrow sequence ESC [ A or ESC [ B; index and
\*                             applies when its ESC was typed
\*   echoed                    bytes echoed
\*   lateRead                  a read() was issued by read_serial after a
\*                             cleanup had restored the link
\*   idle                      a read() returned no byte while the scorer
\*                             held a run of printable bytes from before
\*                             the last timeout
NoTick == [idx |-> 0, applies |-> 0, tc |-> 0]
NoHistory ==
    [interrupts |-> 0, keys |-> 0, nread |-> 0, expirations |-> 0,
     applies |-> 0,
     cleanups |-> 0, restores |-> 0, stdins |-> 0, closes |-> 0,
     linkBack |-> OrigLink, consoleBack |-> OrigConsole,
     summary |-> <<>>, block |-> <<>>, rx |-> <<>>,
     readRate |-> "none", stale |-> FALSE, mixed |-> FALSE,
     confirmed |-> FALSE, confirmRate |-> "none",
     readIdx |-> -2, confirmIdx |-> -2, h0 |-> NoTick, key |-> 0,
     arrow |-> <<>>, a0 |-> NoTick, echoed |-> 0,
     lateRead |-> FALSE, idle |-> FALSE]

(***************************************************************************)
(* Initial state: main() after getopt (main:27-86).                        *)
(***************************************************************************)
Init ==
    /\ proc = "running"
    /\ config \in [fd : {-1}, baud_index : {DEFAULT_BAUD_RATES_INDEX},
                   verbose : {TRUE}, manual : Modes, threaded : {FALSE},
                   threshold : Thresholds, wait_period : WaitPeriods,
                   timeout_count : {0},
                   termios : {ZeroTermios}, stdinios : {ZeroTermios},
                   port : {"alloc"}]
    \* -t is read in auto mode only
    /\ config.manual => config.wait_period = DEFAULT_WAIT_PERIOD
    /\ stack = [t \in Threads |-> IF t = "main" THEN <<"m_open">> ELSE <<>>]
    /\ pth = [state |-> "none", cancel |-> FALSE]
    /\ cl = [b |-> 0]
    /\ rd = [buffer |-> 0, ascii |-> 0, punctuation |-> 0, whitespace |-> 0,
             vowels |-> 0, last_timeout_count |-> 0]
    /\ os = [link |-> OrigLink, open |-> FALSE, console |-> OrigConsole,
             armed |-> FALSE, pending |-> {}, handlers |-> {}]
    /\ obs = NoHistory

\* n++ on a counter kept modulo CountModulus, a width no run with the
\* inputs bounded as above reaches.
Count(n) == (n + 1) % CountModulus

\* Whether the exploration admits one more input.
More == obs.interrupts + obs.keys + obs.nread + obs.expirations < MaxEvents

\* alarm(seconds): 0 only cancels, anything else arms the timer.
Alarm(seconds) == seconds # 0

\* Thread t, its stack being s and the pending signals sigs, calls
\* cleanup() and runs it up to the join: alarm(0); if(config.threaded && pthread_cancel(config.pth) == 0)
EnterCleanup(t, s, sigs) ==
    /\ stack' = [stack EXCEPT ![t] =
                    Append(s, IF config.threaded THEN "k_join" ELSE "k_restore")]
    /\ os' = [os EXCEPT !.armed = Alarm(0), !.pending = sigs]
    /\ pth' = [pth EXCEPT !.cancel = @ \/ (config.threaded /\ pth.state = "live")]
    /\ obs' = [obs EXCEPT !.cleanups = @ + 1]

(***************************************************************************)
(* main (main:88-143).                                                     *)
(***************************************************************************)
\* A variant that goes on with the startup after a failed open.
MainOpenGoesOn ==
    /\ At("main", "m_open")
    /\ \/ /\ config' = [config EXCEPT !.fd = 3]
          /\ os' = [os EXCEPT !.open = TRUE]
          /\ Goto("main", "m_sigint")
       \/ /\ Goto("main", "m_sigint")
          /\ UNCHANGED <<config, os>>
    /\ UNCHANGED <<proc, pth, cl, rd, obs>>

\* config.fd = open_serial_port(); if(config.fd == -1) goto end;
MainOpen ==
    /\ At("main", "m_open")
    /\ \/ /\ config' = [config EXCEPT !.fd = 3]
          /\ os' = [os EXCEPT !.open = TRUE]
          /\ Goto("main", "m_sigint")
       \/ /\ Goto("main", "m_end")
          /\ UNCHANGED <<config, os>>
    /\ UNCHANGED <<proc, pth, cl, rd, obs>>

\* sigaction(SIGINT, ...)
MainSigint ==
    /\ At("main", "m_sigint")
    /\ os' = [os EXCEPT !.handlers = @ \cup {"SIGINT"}]
    /\ Goto("main", "m_sigalrm")
    /\ UNCHANGED <<proc, config, pth, cl, rd, obs>>

\* sigaction(SIGALRM, ...)
MainSigalrm ==
    /\ At("main", "m_sigalrm")
    /\ os' = [os EXCEPT !.handlers = @ \cup {"SIGALRM"}]
    /\ Goto("main", "m_conf_save")
    /\ UNCHANGED <<proc, config, pth, cl, rd, obs>>

\* configure_serial_port: tcgetattr, then memcpy into config.termios
ConfigureSave ==
    /\ At("main", "m_conf_save")
    /\ config' = [config EXCEPT !.termios = os.link]
    /\ Goto("main", "m_conf_set")
    /\ UNCHANGED <<proc, pth, cl, rd, os, obs>>

\* configure_serial_port: raw 8-N-1, no flow control, tcsetattr
ConfigureApply ==
    /\ At("main", "m_conf_set")
    /\ os' = [os EXCEPT !.link = [@ EXCEPT !.flags = "raw"]]
    /\ Goto("main", "m_update")
    /\ UNCHANGED <<proc, config, pth, cl, rd, obs>>

\* A variant that starts the reader without applying a rate first.
MainUpdateSkipped ==
    /\ At("main", "m_update")
    /\ Goto("main", "m_spawn")
    /\ UNCHANGED <<proc, config, pth, cl, rd, os, obs>>

\* update_serial_baud_rate();  (main:131)
MainUpdate ==
    /\ At("main", "m_update")
    /\ Call("main", "m_spawn", "u_clamp")
    /\ UNCHANGED <<proc, config, pth, cl, rd, os, obs>>

\* A variant whose failure branch leaves without cleanup().
MainSpawnNoCleanup ==
    /\ At("main", "m_spawn")
    /\ \/ /\ stack' = [stack EXCEPT !["main"] = SetTop(@, "m_threaded"),
                                    !["reader"] = <<"r_start">>]
          /\ pth' = [pth EXCEPT !.state = "live"]
       \/ /\ Goto("main", "m_end")
          /\ UNCHANGED pth
    /\ UNCHANGED <<proc, config, cl, rd, os, obs>>

\* pthread_create(...) == 0, or not
MainSpawn ==
    /\ At("main", "m_spawn")
    /\ \/ /\ stack' = [stack EXCEPT !["main"] = SetTop(@, "m_threaded"),
                                    !["reader"] = <<"r_start">>]
          /\ pth' = [pth EXCEPT !.state = "live"]
       \/ /\ Goto("main", "m_cleanup")
          /\ UNCHANGED pth
    /\ UNCHANGED <<proc, config, cl, rd, os, obs>>

\* config.threaded = 1; cli();
MainThreaded ==
    /\ At("main", "m_threaded")
    /\ config' = [config EXCEPT !.threaded = TRUE]
    /\ Goto("main", "c_save")
    /\ UNCHANGED <<proc, pth, cl, rd, os, obs>>

\* cleanup();  (main:140)
MainCleanup ==
    /\ At("main", "m_cleanup")
    /\ EnterCleanup("main", SetTop(stack["main"], "m_end"), os.pending)
    /\ UNCHANGED <<proc, config, cl, rd>>

\* end: return EXIT_FAILURE;
MainEnd ==
    /\ At("main", "m_end")
    /\ proc' = "EXIT_FAILURE"
    /\ UNCHANGED <<config, stack, pth, cl, rd, os, obs>>

(***************************************************************************)
(* update_serial_baud_rate (baudrate.c:204-233), on thread t.              *)
(***************************************************************************)
\* A variant that clamps at the ends of the table instead of wrapping.
WrapClamp(i) ==
    IF i < 0 THEN 0
    ELSE IF i >= BAUD_RATES_SIZE THEN BAUD_RATES_SIZE - 1
    ELSE i

\* The wrap of lines 209-216.
Wrap(i) ==
    IF i < 0 THEN DEFAULT_BAUD_RATES_INDEX
    ELSE IF i >= BAUD_RATES_SIZE THEN 0
    ELSE i

UpdateWrap(t) ==
    /\ At(t, "u_clamp")
    /\ config' = [config EXCEPT !.baud_index = Wrap(@)]
    /\ Goto(t, "u_set")
    /\ UNCHANGED <<proc, pth, cl, rd, os, obs>>

\* tcgetattr, cfsetispeed/cfsetospeed, tcsetattr (a closed descriptor:
\* EBADF); if(config.verbose) fprintf(...); return;
UpdateApply(t) ==
    /\ At(t, "u_set")
    /\ os' = IF os.open
             THEN [os EXCEPT !.link = [@ EXCEPT !.speed = Desc(config.baud_index)]]
             ELSE os
    /\ obs' = [obs EXCEPT !.applies = Count(@), !.key = 0,
                          !.stale = @ \/ (os.open /\ rd.ascii > 0)]
    /\ Return(t)
    /\ UNCHANGED <<proc, config, pth, cl, rd>>

(***************************************************************************)
(* cli (baudrate.c:236-290), on the main thread.                           *)
(***************************************************************************)
\* tcgetattr(STDIN), memcpy into config.stdinios
CliSave ==
    /\ At("main", "c_save")
    /\ config' = [config EXCEPT !.stdinios = os.console]
    /\ Goto("main", "c_raw")
    /\ UNCHANGED <<proc, pth, cl, rd, os, obs>>

\* tio.c_lflag &= ~ICANON; tcsetattr(STDIN)
CliRaw ==
    /\ At("main", "c_raw")
    /\ os' = [os EXCEPT !.console = [@ EXCEPT !.flags = "noicanon"]]
    /\ Goto("main", "c_loop")
    /\ UNCHANGED <<proc, config, pth, cl, rd, obs>>

\* while(1) { if(config.manual) { b = config.baud_index; ... } else sleep }
CliLoop ==
    /\ At("main", "c_loop")
    /\ IF config.manual
       THEN /\ cl' = [cl EXCEPT !.b = config.baud_index]
            /\ Goto("main", "c_getchar")
       ELSE /\ Goto("main", "c_loop")      \* sleep(config.wait_period);
            /\ UNCHANGED cl
    /\ UNCHANGED <<proc, config, pth, rd, os, obs>>

\* A variant that does not know the arrow key.
IsUpLetters(c) == c = 117 \/ c = 85

IsUp(c)   == c = 117 \/ c = 85 \/ c = UP_ARROW
IsDown(c) == c = 100 \/ c = 68 \/ c = DOWN_ARROW
IsEscape(c) == c = ESC \/ c = LBRACKET

\* History: how far the keys typed so far, k being the last, are into an
\* arrow sequence.
ArrowAfter(seq, k) ==
    IF k = ESC THEN <<ESC>>
    ELSE IF seq = <<ESC>> /\ k = LBRACKET THEN <<ESC, LBRACKET>>
    ELSE IF seq = <<ESC, LBRACKET>> /\ k \in {UP_ARROW, DOWN_ARROW}
         THEN <<ESC, LBRACKET, k>>
    ELSE <<>>

ArrowStart(k) ==
    IF k = ESC
    THEN [idx |-> config.baud_index, applies |-> obs.applies, tc |-> 0]
    ELSE IF ArrowAfter(obs.arrow, k) = <<>> THEN NoTick ELSE obs.a0

\* c = getchar(); and the if/else-if chain of lines 260-272
CliKey ==
    /\ At("main", "c_getchar")
    /\ obs.keys < MaxKeys /\ More
    /\ \E k \in Keys :
        /\ config' = [config EXCEPT !.baud_index =
                         IF IsUp(k) THEN @ + 1
                         ELSE IF IsDown(k) THEN @ - 1
                         ELSE @]
        /\ IF ~IsUp(k) /\ ~IsDown(k) /\ IsEscape(k)
           THEN /\ Goto("main", "c_loop")
                /\ obs' = [obs EXCEPT !.keys = @ + 1,
                                      !.arrow = ArrowAfter(@, k),
                                      !.a0 = ArrowStart(k)]
           ELSE /\ Goto("main", "c_cmp")
                /\ obs' = [obs EXCEPT !.keys = @ + 1, !.key = k,
                                      !.arrow = ArrowAfter(@, k),
                                      !.a0 = ArrowStart(k)]
    /\ UNCHANGED <<proc, pth, cl, rd, os>>

\* if(b != config.baud_index) update_serial_baud_rate();
CliCompare ==
    /\ At("main", "c_cmp")
    /\ IF cl.b # config.baud_index
       THEN /\ Call("main", "c_loop", "u_clamp")
            /\ UNCHANGED obs
       ELSE /\ Goto("main", "c_loop")
            /\ obs' = [obs EXCEPT !.key = 0]
    /\ UNCHANGED <<proc, config, pth, cl, rd, os>>

(***************************************************************************)
(* read_serial (baudrate.c:293-381), on the reader thread.                 *)
(***************************************************************************)
IsPrintable(b)   == (b >= 32 /\ b <= 126) \/ b = 10 \/ b = 13
IsWhitespace(b)  == b \in {32, 13, 10}
IsPunctuation(b) == b \in {46, 44, 59, 58, 33, 63}
IsVowel(b)       == b \in {97, 65, 101, 69, 105, 73, 111, 79, 117, 85}

\* A variant that keeps the category counters across a break.
ResetCountOnly(r) ==
    [r EXCEPT !.ascii = 0]

\* Lines 353-356 and 368-371.
ResetCounters(r) ==
    [r EXCEPT !.ascii = 0, !.vowels = 0, !.whitespace = 0, !.punctuation = 0]

\* Lines 317-357: count the byte, or break the run.
Classify(r) ==
    IF IsPrintable(r.buffer)
    THEN [r EXCEPT !.ascii = @ + 1,
                   !.whitespace = IF IsWhitespace(r.buffer) THEN @ + 1 ELSE @,
                   !.punctuation = IF IsPunctuation(r.buffer) THEN @ + 1 ELSE @,
                   !.vowels = IF IsVowel(r.buffer) THEN @ + 1 ELSE @]
    ELSE ResetCounters(r)

\* A variant that wants more bytes than the threshold.
VerdictStrict(r) ==
    r.ascii > config.threshold /\ r.whitespace # 0 /\ r.vowels # 0
        /\ r.punctuation # 0

\* A variant that looks at the length of the run alone.
VerdictCountOnly(r) ==
    r.ascii >= config.threshold

\* Line 359.
Verdict(r) ==
    r.ascii >= config.threshold /\ r.whitespace # 0 /\ r.vowels # 0
        /\ r.punctuation # 0

\* Lines 365-372: a timeout seen since the last look drops the counters.
StaleReset(r) ==
    IF config.timeout_count > r.last_timeout_count
    THEN [ResetCounters(r) EXCEPT !.last_timeout_count = config.timeout_count]
    ELSE r

\* Cancellation is deferred: it is acted on at a cancellation point only.
CancelPending(t) == t = "reader" /\ pth.cancel

\* A variant that arms the timer in either mode.
ReadStartAlways ==
    /\ At("reader", "r_start")
    /\ os' = [os EXCEPT !.armed = Alarm(config.wait_period)]
    /\ Goto("reader", "r_read")
    /\ UNCHANGED <<proc, config, pth, cl, rd, obs>>

\* if(!config.manual) alarm(config.wait_period);
ReadStart ==
    /\ At("reader", "r_start")
    /\ os' = IF ~config.manual
             THEN [os EXCEPT !.armed = Alarm(config.wait_period)]
             ELSE os
    /\ Goto("reader", "r_read")
    /\ UNCHANGED <<proc, config, pth, cl, rd, obs>>

\* memset; read(config.fd, &buffer, 1) == 1.  In manual mode the byte is
\* echoed at once; in auto mode it is classified (lines 315-357) and the
\* verdict is still to come.
ReadByte(S, max, track) ==
    /\ At("reader", "r_read")
    /\ ~CancelPending("reader")
    /\ os.open
    /\ obs.nread < max
    /\ \E b \in S :
        IF config.manual
        THEN /\ rd' = [rd EXCEPT !.buffer = 0]
             /\ obs' = [obs EXCEPT !.nread = @ + 1, !.echoed = @ + 1,
                                   !.lateRead = @ \/ obs.restores > 0,
                                   !.rx = IF track THEN Append(@, b) ELSE @]
             /\ Goto("reader", "r_read")
        ELSE /\ rd' = Classify([rd EXCEPT !.buffer = b])
             /\ obs' = [obs EXCEPT !.nread = @ + 1,
                                   !.lateRead = @ \/ obs.restores > 0,
                                   !.readRate = os.link.speed,
                                   !.readIdx = config.baud_index,
                                   !.mixed = obs.stale /\ IsPrintable(b),
                                   !.stale = @ /\ IsPrintable(b),
                                   !.rx = IF track THEN Append(@, b) ELSE @]
             /\ Goto("reader", "r_verdict")
    /\ UNCHANGED <<proc, config, pth, cl, os>>

\* A variant that takes note of a timeout also when no byte was read.
ReadNoneResets ==
    /\ At("reader", "r_read")
    /\ ~CancelPending("reader")
    /\ rd' = IF ~config.manual THEN StaleReset(rd) ELSE rd
    /\ obs' = [obs EXCEPT !.lateRead = @ \/ obs.restores > 0,
                          !.idle = @ \/ (rd.ascii > 0 /\ config.timeout_count
                                                          > rd.last_timeout_count)]
    /\ Goto("reader", "r_read")
    /\ UNCHANGED <<proc, config, pth, cl, os>>

\* memset; read(...) != 1: the 10 s VTIME ran out, EINTR, or the descriptor
\* is closed.  Nothing else runs in that turn of the loop.
ReadNone ==
    /\ At("reader", "r_read")
    /\ ~CancelPending("reader")
    /\ obs' = [obs EXCEPT !.lateRead = @ \/ obs.restores > 0,
                          !.idle = @ \/ (rd.ascii > 0 /\ config.timeout_count
                                                          > rd.last_timeout_count)]
    /\ Goto("reader", "r_read")
    /\ UNCHANGED <<proc, config, pth, cl, rd, os>>

\* if(verdict) {...} else { if(timeout_count > last_timeout_count) {...}
\* fprintf(stderr, "%c", buffer[0]); } and the memset of the next turn
ReadVerdict ==
    /\ At("reader", "r_verdict")
    /\ IF Verdict(rd)
       THEN /\ Goto("reader", "r_kill")
            /\ obs' = [obs EXCEPT !.confirmed = TRUE,
                                  !.confirmRate = obs.readRate,
                                  !.confirmIdx = obs.readIdx,
                                  !.readRate = "none", !.readIdx = -2]
            /\ UNCHANGED rd
       ELSE /\ rd' = [StaleReset(rd) EXCEPT !.buffer = 0]
            /\ obs' = [obs EXCEPT !.echoed = @ + 1, !.readRate = "none",
                                  !.readIdx = -2,
                                  !.mixed = FALSE,
                                  !.stale = @ /\ StaleReset(rd).ascii > 0]
            /\ Goto("reader", "r_read")
    /\ UNCHANGED <<proc, config, pth, cl, os>>

\* alarm(0); kill(getpid(), SIGINT);
ReadKill ==
    /\ At("reader", "r_kill")
    /\ os' = [os EXCEPT !.armed = Alarm(0), !.pending = @ \cup {"SIGINT"}]
    /\ Goto("reader", "r_break")
    /\ UNCHANGED <<proc, config, pth, cl, rd, obs>>

\* break; return NULL;
ReadBreak ==
    /\ At("reader", "r_break")
    /\ stack' = [stack EXCEPT !["reader"] = <<>>]
    /\ pth' = [pth EXCEPT !.state = "dead"]
    /\ UNCHANGED <<proc, config, cl, rd, os, obs>>

(***************************************************************************)
(* cleanup (baudrate.c:473-509), on thread t.                              *)
(***************************************************************************)
\* pthread_join(config.pth, &thread_retval) returns once the reader has
\* ended; called by the reader itself it fails with EDEADLK, unless the
\* library acts on the pending cancellation first (CancelAct).  Then
\* if(config.fd != -1) { tcsetattr(config.fd, TCSANOW, &config.termios);
\*                       tcsetattr(STDIN, TCSANOW, &config.stdinios);
CleanupRestore(t) ==
    /\ \/ At(t, "k_restore")
       \/ At(t, "k_join") /\ (t = "reader" \/ pth.state = "dead")
    /\ IF config.fd # -1
       THEN /\ os' = [os EXCEPT
                        !.link = IF os.open THEN config.termios ELSE @,
                        !.console = config.stdinios]
            /\ obs' = [obs EXCEPT !.restores = @ + 1,
                                  !.linkBack = config.termios,
                                  !.stdins = @ + 1,
                                  !.consoleBack = config.stdinios]
            /\ Goto(t, "k_close")
       ELSE /\ Goto(t, "k_block")
            /\ UNCHANGED <<os, obs>>
    /\ UNCHANGED <<proc, config, pth, cl, rd>>

\* close(config.fd);  (a cancellation point)
CleanupClose(t) ==
    /\ At(t, "k_close")
    /\ ~CancelPending(t)
    /\ os' = [os EXCEPT !.open = FALSE]
    /\ obs' = [obs EXCEPT !.closes = @ + 1]
    /\ Goto(t, "k_summary")
    /\ UNCHANGED <<proc, config, pth, cl, rd>>

\* if(config.verbose) fprintf(... BAUD_RATES[config.baud_index].desc ...);
CleanupSummary(t) ==
    /\ At(t, "k_summary")
    /\ obs' = IF config.verbose
              THEN [obs EXCEPT !.summary = Append(@, config.baud_index)]
              ELSE obs
    /\ Goto(t, "k_block")
    /\ UNCHANGED <<proc, config, pth, cl, rd, os>>

\* print_current_minicom_config(): "pu baudrate  %s" (baudrate.c:447) }
\* if(config.port) free(config.port);  the pointer is not cleared, so a
\* second cleanup frees it again: the allocator aborts or carries on.
CleanupBlock(t) ==
    /\ At(t, "k_block")
    /\ obs' = IF config.fd # -1
              THEN [obs EXCEPT !.block = Append(@, config.baud_index)]
              ELSE obs
    /\ config' = [config EXCEPT !.port = "freed"]
    /\ \/ /\ Return(t)
          /\ UNCHANGED proc
       \/ /\ config.port = "freed"
          /\ proc' = "SIGABRT"
          /\ UNCHANGED stack
    /\ UNCHANGED <<pth, cl, rd, os>>

\* The reader acts on a pending cancellation: at read(), close() and
\* pthread_join(), and at the stdio calls, which may be cancellation points.
CancelPoints == {"r_read", "k_join", "k_close", "k_summary", "k_block"}

CancelAct ==
    /\ proc = "running"
    /\ stack["reader"] # <<>>
    /\ pth.cancel
    /\ Top("reader") \in CancelPoints
    /\ stack' = [stack EXCEPT !["reader"] = <<>>]
    /\ pth' = [pth EXCEPT !.state = "dead"]
    /\ UNCHANGED <<proc, config, cl, rd, os, obs>>

(***************************************************************************)
(* sigint_handler (baudrate.c:512-517), on thread t.                       *)
(***************************************************************************)
\* exit(EXIT_SUCCESS);
SigintExit(t) ==
    /\ At(t, "i_exit")
    /\ proc' = "EXIT_SUCCESS"
    /\ UNCHANGED <<config, stack, pth, cl, rd, os, obs>>

(***************************************************************************)
(* sigalrm_handler (baudrate.c:520-531), on thread t.                      *)
(***************************************************************************)
\* A variant that leaves the timer disarmed.
SigalrmNoRearm(t) ==
    /\ At(t, "a_rearm")
    /\ obs' = [obs EXCEPT !.h0 = NoTick]
    /\ Return(t)
    /\ UNCHANGED <<proc, config, pth, cl, rd, os>>

\* alarm(config.wait_period); }
SigalrmRearm(t) ==
    /\ At(t, "a_rearm")
    /\ os' = [os EXCEPT !.armed = Alarm(config.wait_period)]
    /\ obs' = [obs EXCEPT !.h0 = NoTick]
    /\ Return(t)
    /\ UNCHANGED <<proc, config, pth, cl, rd>>

(***************************************************************************)
(* The kernel and the operator.                                            *)
(***************************************************************************)
\* A pending SIGINT is delivered to a thread that does not block it:
\* sigint_handler runs on top of whatever the thread was doing, and calls
\* cleanup().
DeliverSigint(t) ==
    /\ proc = "running"
    /\ "SIGINT" \in os.pending
    /\ stack[t] # <<>>
    /\ ~Blocked(t, "SIGINT")
    /\ EnterCleanup(t, Append(stack[t], "i_exit"), os.pending \ {"SIGINT"})
    /\ UNCHANGED <<proc, config, cl, rd>>

\* The same for SIGALRM and sigalrm_handler, up to its call of
\* update_serial_baud_rate():
\* if(!config.manual) { config.timeout_count++; config.baud_index--;
DeliverSigalrm(t) ==
    /\ proc = "running"
    /\ "SIGALRM" \in os.pending
    /\ stack[t] # <<>>
    /\ ~Blocked(t, "SIGALRM")
    /\ os' = [os EXCEPT !.pending = @ \ {"SIGALRM"}]
    /\ IF ~config.manual
       THEN /\ config' = [config EXCEPT !.timeout_count = Count(@),
                                        !.baud_index = @ - 1]
            /\ stack' = [stack EXCEPT ![t] = @ \o <<"a_rearm", "u_clamp">>]
            /\ obs' = [obs EXCEPT !.h0 = [idx |-> config.baud_index,
                                          applies |-> obs.applies,
                                          tc |-> config.timeout_count]]
       ELSE UNCHANGED <<config, stack, obs>>
    /\ UNCHANGED <<proc, pth, cl, rd>>

\* Ctrl+C (or kill -INT).  Before sigaction() the default action ends the
\* process.
Interrupt ==
    /\ proc = "running"
    /\ obs.interrupts < MaxInterrupts /\ More
    /\ "SIGINT" \notin os.pending
    /\ obs' = [obs EXCEPT !.interrupts = @ + 1]
    /\ IF "SIGINT" \in os.handlers
       THEN /\ os' = [os EXCEPT !.pending = @ \cup {"SIGINT"}]
            /\ UNCHANGED proc
       ELSE /\ proc' = "SIGINT"
            /\ UNCHANGED os
    /\ UNCHANGED <<config, stack, pth, cl, rd>>

\* The alarm() timer runs out, where the exploration admits it.
TimerExpires(admitted) ==
    /\ proc = "running"
    /\ os.armed
    /\ admitted
    /\ os' = [os EXCEPT !.armed = FALSE, !.pending = @ \cup {"SIGALRM"}]
    /\ obs' = [obs EXCEPT !.expirations = Count(@)]
    /\ UNCHANGED <<proc, config, stack, pth, cl, rd>>

Expire == TimerExpires(obs.expirations < MaxTimeouts /\ More)

(***************************************************************************)
(* The program.                                                            *)
(***************************************************************************)
MainStep ==
    \/ MainOpen \/ MainSigint \/ MainSigalrm \/ ConfigureSave
    \/ ConfigureApply \/ MainUpdate \/ MainSpawn \/ MainThreaded
    \/ MainCleanup \/ MainEnd
    \/ CliSave \/ CliRaw \/ CliLoop

ManualStep == CliKey \/ CliCompare

ReaderStep ==
    \/ ReadStart \/ ReadNone \/ ReadVerdict \/ ReadKill \/ ReadBreak

UpdateStep(t) == UpdateWrap(t) \/ UpdateApply(t)

CleanupStep(t) ==
    \/ CleanupRestore(t) \/ CleanupClose(t) \/ CleanupSummary(t)
    \/ CleanupBlock(t) \/ SigintExit(t)

Next ==
    \/ MainStep
    \/ ManualStep
    \/ ReaderStep
    \/ ReadByte(Bytes, IF More THEN MaxBytes ELSE 0, FALSE)
    \/ CancelAct
    \/ Interrupt
    \/ Expire
    \/ \E t \in Threads :
        \/ UpdateStep(t)
        \/ CleanupStep(t)
        \/ SigalrmRearm(t)
        \/ DeliverSigint(t)
        \/ DeliverSigalrm(t)

Spec == Init /\ [][Next]_vars

(***************************************************************************)
(* The scorer alone: auto mode, any threshold -c accepts, a richer byte    *)
(* alphabet and the bytes read kept in obs.rx; the timer never runs out    *)
(* and the operator does not interrupt.                                    *)
(***************************************************************************)
InitScorer ==
    /\ proc = "running"
    /\ config \in [fd : {-1}, baud_index : {DEFAULT_BAUD_RATES_INDEX},
                   verbose : {TRUE}, manual : {FALSE}, threaded : {FALSE},
                   threshold : ScorerThresholds,
                   wait_period : {DEFAULT_WAIT_PERIOD},
                   timeout_count : {0},
                   termios : {ZeroTermios}, stdinios : {ZeroTermios},
                   port : {"alloc"}]
    /\ stack = [t \in Threads |-> IF t = "main" THEN <<"m_open">> ELSE <<>>]
    /\ pth = [state |-> "none", cancel |-> FALSE]
    /\ cl = [b |-> 0]
    /\ rd = [buffer |-> 0, ascii |-> 0, punctuation |-> 0, whitespace |-> 0,
             vowels |-> 0, last_timeout_count |-> 0]
    /\ os = [link |-> OrigLink, open |-> FALSE, console |-> OrigConsole,
             armed |-> FALSE, pending |-> {}, handlers |-> {}]
    /\ obs = NoHistory

NextScorer ==
    \/ MainStep
    \/ ReaderStep
    \/ ReadByte(ScorerBytes, MaxRun, TRUE)
    \/ CancelAct
    \/ \E t \in Threads :
        \/ UpdateStep(t)
        \/ CleanupStep(t)
        \/ DeliverSigint(t)

SpecScorer == InitScorer /\ [][NextScorer]_vars

(***************************************************************************)
(* The program under a fair scheduler: a thread that can take a step of    *)
(* the program takes one in the end, a pending signal is delivered to a    *)
(* thread that does not block it, and a pending cancellation is acted on   *)
(* at a cancellation point.  Nothing is assumed of the inputs: the         *)
(* operator, the line and the timer may stay silent.                       *)
(***************************************************************************)
Scheduled ==
    \/ MainStep
    \/ CliCompare
    \/ ReadStart \/ ReadVerdict \/ ReadKill \/ ReadBreak
    \/ CancelAct
    \/ \E t \in Threads :
        \/ UpdateStep(t)
        \/ CleanupStep(t)
        \/ SigalrmRearm(t)
        \/ DeliverSigint(t)
        \/ DeliverSigalrm(t)

SpecLive == Init /\ [][Next]_vars /\ WF_vars(Scheduled)

(***************************************************************************)
(* The timer alone: auto mode with any wait period -t accepts, a line that *)
(* stays silent and an operator who does not interrupt, so that the timer  *)
(* may run out any number of times.  The scheduler is fair as above, and   *)
(* so is the timer: once armed and left armed, it runs out.                *)
(***************************************************************************)
InitCycle ==
    /\ Init
    /\ ~config.manual

NextCycle ==
    \/ MainStep
    \/ ReadStart
    \/ ReadNone
    \/ TimerExpires(TRUE)
    \/ \E t \in Threads :
        \/ UpdateStep(t)
        \/ CleanupRestore(t) \/ CleanupClose(t)
        \/ CleanupSummary(t) \/ CleanupBlock(t)
        \/ SigalrmRearm(t)
        \/ DeliverSigalrm(t)

ScheduledCycle ==
    \/ MainStep
    \/ ReadStart
    \/ \E t \in Threads :
        \/ UpdateStep(t)
        \/ CleanupRestore(t) \/ CleanupClose(t)
        \/ CleanupSummary(t) \/ CleanupBlock(t)
        \/ SigalrmRearm(t)
        \/ DeliverSigalrm(t)

SpecCycle ==
    /\ InitCycle /\ [][NextCycle]_vars
    /\ WF_vars(ScheduledCycle) /\ WF_vars(TimerExpires(TRUE))


(***************************************************************************)
(* Properties.                                                             *)
(***************************************************************************)
Exits == {"EXIT_SUCCESS", "EXIT_FAILURE"}

\* C1: cleanup runs exactly once however shutdown is triggered: the count
\* of restores of the terminal settings never exceeds 1.
C1_RestoreAtMostOnce ==
    obs.restores <= 1

\* The step that ends the processing of a keypress: cli() is back at the
\* top of its loop, after the comparison or after the update it called.
KeyDone ==
    /\ config.manual
    /\ \/ CliCompare /\ cl.b = config.baud_index
       \/ UpdateApply("main") /\ stack["main"] = <<"c_loop", "u_set">>

KeyDir(k) == IF IsUp(k) THEN 1 ELSE IF IsDown(k) THEN -1 ELSE 0

\* The index after an event that started at index start and moved it by dir.
InRangeAndWrapped(start, dir) ==
    /\ config'.baud_index \in 0..(BAUD_RATES_SIZE - 1)
    /\ (start = 0 /\ dir = -1) => config'.baud_index = BAUD_RATES_SIZE - 1
    /\ (start = BAUD_RATES_SIZE - 1 /\ dir = 1) => config'.baud_index = 0

\* C2: once an increment (keypress) or a decrement (keypress, timer
\* expiration) has been fully processed, the index is in [0, N-1]; stepping
\* down from 0 gives N-1 and stepping up from N-1 gives 0.
C2_IndexWraps ==
    [][/\ \A t \in Threads :
            SigalrmRearm(t) => InRangeAndWrapped(obs.h0.idx, -1)
       /\ KeyDone => InRangeAndWrapped(cl.b, KeyDir(obs.key))]_vars

\* One keypress at the top of the table has wrapped to entry 0.
C2_Witness ==
    /\ config.manual
    /\ obs.keys = 1
    /\ obs.applies = 2
    /\ config.baud_index = 0
    /\ At("main", "c_loop")

\* C3: a verdict never counts evidence gathered under an earlier rate
\* towards the rate the confirming byte was read at.
C3_NoStaleEvidence ==
    obs.confirmed => ~obs.mixed

\* C4: what cleanup writes back to the link and to the console is what was
\* captured from them at startup, never a snapshot that was not taken.
C4_RestoresCaptured ==
    /\ obs.linkBack = OrigLink
    /\ obs.consoleBack = OrigConsole

\* C5: once the link is open, every exit of the program (return from main,
\* exit() in the handler) comes after a cleanup that restored the link and
\* the console and closed the descriptor; so after a failed thread spawn.
C5_ExitAfterCleanup ==
    (proc \in Exits /\ config.fd # -1) =>
        /\ obs.cleanups >= 1
        /\ obs.restores >= 1
        /\ obs.stdins >= 1
        /\ obs.closes >= 1
        /\ ~os.open

\* The thread could not be started: main has cleaned up and returned.
C5_Witness ==
    /\ proc = "EXIT_FAILURE"
    /\ config.fd # -1
    /\ pth.state = "none"
    /\ obs.restores = 1

\* The reference rule, over the bytes read: printable is 0x20..0x7E, CR, LF.
RefPrintable(b)   == (b >= 32 /\ b <= 126) \/ b = 13 \/ b = 10
RefWhitespace(b)  == b = 32 \/ b = 13 \/ b = 10
RefPunctuation(b) == b \in {46, 44, 59, 58, 33, 63}
RefVowel(b)       == b \in {97, 101, 105, 111, 117, 65, 69, 73, 79, 85}

\* The maximal run of printable bytes that ends s.
RECURSIVE RefRun(_)
RefRun(s) ==
    IF s = <<>> \/ ~RefPrintable(s[Len(s)]) THEN <<>>
    ELSE Append(RefRun(SubSeq(s, 1, Len(s) - 1)), s[Len(s)])

RefQualifies(s) ==
    /\ Len(s) >= config.threshold
    /\ \E i \in 1..Len(s) : RefWhitespace(s[i])
    /\ \E i \in 1..Len(s) : RefPunctuation(s[i])
    /\ \E i \in 1..Len(s) : RefVowel(s[i])

RefConfirms(s) == RefQualifies(RefRun(s))

\* The bytes whose verdict has been taken.
Judged ==
    IF InStack("reader", {"r_verdict"})
    THEN SubSeq(obs.rx, 1, Len(obs.rx) - 1)
    ELSE obs.rx

\* C6: with no timer expiration, the scorer confirms at byte k exactly when
\* k is the first position at which the current maximal run of printable
\* bytes is at least threshold long and holds a whitespace, a punctuation
\* and a vowel byte.
C6_VerdictMatchesRule ==
    /\ obs.confirmed <=>
           \E k \in 1..Len(Judged) : RefConfirms(SubSeq(obs.rx, 1, k))
    /\ obs.confirmed =>
           \A k \in 1..(Len(obs.rx) - 1) : ~RefConfirms(SubSeq(obs.rx, 1, k))

\* threshold 5 and "ab.b ": confirmed at the fifth byte.
C6_Witness ==
    /\ obs.confirmed
    /\ config.threshold = 5
    /\ obs.rx = <<97, 98, 46, 98, 32>>

\* C7: a non-printable byte zeroes the four counters, so that a verdict
\* needs the bytes after it to qualify on their own.
C7_BreakResets ==
    /\ (InStack("reader", {"r_verdict"}) /\ ~RefPrintable(obs.rx[Len(obs.rx)]))
           => /\ rd.ascii = 0
              /\ rd.whitespace = 0
              /\ rd.punctuation = 0
              /\ rd.vowels = 0
    /\ obs.confirmed =>
           \A i \in 1..Len(obs.rx) :
               ~RefPrintable(obs.rx[i])
                   => RefQualifies(SubSeq(obs.rx, i + 1, Len(obs.rx)))

\* A break in the middle of the bytes, and a verdict on what follows it.
C7_Witness ==
    /\ obs.confirmed
    /\ config.threshold = 3
    /\ obs.rx = <<97, 46, 0, 97, 46, 32>> \/ obs.rx = <<97, 0, 97, 46, 32>>

\* C8: as long as no printable byte has been read the scorer does not
\* confirm and does not ask for shutdown, for every threshold, 0 and
\* negative ones included.
C8_NeverOnNothing ==
    (\A i \in 1..Len(obs.rx) : ~RefPrintable(obs.rx[i])) =>
        /\ ~obs.confirmed
        /\ "SIGINT" \notin os.pending
        /\ ~InStack("reader", {"r_kill", "r_break"})
        /\ \A t \in Threads : ~InStack(t, {"i_exit"})
        /\ proc # "EXIT_SUCCESS"

\* Non-printable bytes only, all judged, under a threshold of 0 or less.
C8_Witness ==
    /\ config.threshold <= 0
    /\ Len(obs.rx) >= 3
    /\ \A i \in 1..Len(obs.rx) : ~RefPrintable(obs.rx[i])
    /\ At("reader", "r_read")

\* C9: the rate named by the shutdown summary is the one in effect when
\* the confirming byte was read (the link's rate, or the index, at that
\* read), timer expirations around the verdict notwithstanding.
C9_SummaryIsConfirmedRate ==
    (obs.confirmed /\ obs.interrupts = 0) =>
        \A i \in 1..Len(obs.summary) :
            \/ Desc(obs.summary[i]) = obs.confirmRate
            \/ obs.summary[i] = obs.confirmIdx

\* C10: a timer expiration moves the index from i to i-1, or from 0 to N-1,
\* applies the new rate exactly once, adds 1 to timeout_count and re-arms
\* the timer; as long as no shutdown has begun the link runs at the new rate
\* when the handler returns.
C10_TimerStep ==
    [][\A t \in Threads :
         SigalrmRearm(t) =>
           /\ config.baud_index =
                  (IF obs.h0.idx > 0 THEN obs.h0.idx - 1
                   ELSE BAUD_RATES_SIZE - 1)
           /\ config'.baud_index = config.baud_index
           /\ obs.applies = obs.h0.applies + 1
           /\ obs.cleanups = 0 => os.link.speed = Desc(config.baud_index)
           /\ config.timeout_count = obs.h0.tc + 1
           /\ config'.timeout_count = config.timeout_count
           /\ os'.armed]_vars

\* As many expirations as there are rates: the index is back at the top
\* and each expiration applied one rate.
C10_Witness ==
    /\ ~obs.confirmed
    /\ obs.cleanups = 0
    /\ config.timeout_count = NumRates
    /\ config.baud_index = DEFAULT_BAUD_RATES_INDEX
    /\ obs.applies = NumRates + 1
    /\ os.link.speed = Desc(DEFAULT_BAUD_RATES_INDEX)
    /\ \A t \in Threads : ~InStack(t, {"a_rearm"})

\* The gestures of the keyboard: u, U and the last byte of ESC [ A step up;
\* d, D and the last byte of ESC [ B step down; no other byte steps.
GestureDir(k) ==
    IF k \in {117, 85, 65} THEN 1 ELSE IF k \in {100, 68, 66} THEN -1 ELSE 0

Stepped(from, dir) == (from + dir + BAUD_RATES_SIZE) % BAUD_RATES_SIZE

\* C11: in manual mode a keypress byte that is an increase gesture moves the
\* index by +1 with wrap and a decrease gesture by -1 with wrap, each with
\* one apply; any other byte, the ESC and [ of an arrow sequence included,
\* leaves the index alone and applies nothing; a whole arrow sequence makes
\* one step and one apply.
C11_KeyStep ==
    [][/\ CliKey =>
            /\ config'.baud_index = config.baud_index + GestureDir(obs'.key)
            /\ obs'.applies = obs.applies
       /\ KeyDone =>
            /\ config'.baud_index = Stepped(cl.b, GestureDir(obs.key))
            /\ obs'.applies =
                   obs.applies + (IF GestureDir(obs.key) # 0 THEN 1 ELSE 0)
            /\ Len(obs.arrow) = 3 =>
                   /\ config'.baud_index =
                          Stepped(obs.a0.idx, GestureDir(obs.arrow[3]))
                   /\ obs'.applies = obs.a0.applies + 1]_vars

\* ESC [ A typed at the top of the table and processed: entry 0, one apply.
C11_Witness ==
    /\ config.manual
    /\ obs.arrow = <<ESC, LBRACKET, UP_ARROW>>
    /\ obs.a0.idx = BAUD_RATES_SIZE - 1
    /\ At("main", "c_loop")
    /\ config.baud_index = 0
    /\ obs.applies = obs.a0.applies + 1

\* C12: cleanup waits for the reader to stop before it restores and closes
\* the link: read_serial issues no read() on the link once a cleanup has
\* restored it, whichever thread runs the handler.
C12_NoReadAfterRestore ==
    ~obs.lateRead

\* In manual mode: the scorer's state is untouched, every byte read has been
\* echoed, no detection was requested, the timer was never armed, and a run
\* that has started its reader has ended by an interrupt if at all.
ManualReaderEchoes ==
    config.manual =>
        /\ rd.ascii = 0 /\ rd.whitespace = 0 /\ rd.punctuation = 0
        /\ rd.vowels = 0 /\ rd.last_timeout_count = 0
        /\ obs.echoed = obs.nread
        /\ ~obs.confirmed
        /\ ~InStack("reader", {"r_verdict", "r_kill", "r_break"})
        /\ ~os.armed /\ "SIGALRM" \notin os.pending
        /\ config.timeout_count = 0
        /\ (proc # "running" /\ pth.state # "none") => obs.interrupts >= 1

\* C13: in manual mode the reader only echoes: it never updates the scorer,
\* never requests detection, never arms the timer; the index changes only
\* on the operator's keypresses and the run ends only by an interrupt.
C13_ManualOnlyEchoes ==
    [][/\ ManualReaderEchoes /\ ManualReaderEchoes'
       /\ (config.manual /\ config'.baud_index # config.baud_index) =>
              \/ CliKey
              \/ UpdateWrap("main") /\ GestureDir(obs.key) # 0]_vars

\* Bytes were echoed, a key was handled, and the operator ended the run.
C13_Witness ==
    /\ config.manual
    /\ obs.nread >= 2 /\ obs.echoed = obs.nread
    /\ obs.keys >= 1
    /\ proc = "EXIT_SUCCESS"

\* Nothing of the reader or of cli() has happened before the first apply.
AppliedBeforeStart ==
    (\/ pth.state # "none"
     \/ stack["reader"] # <<>>
     \/ InStack("main", {"m_threaded", "c_save", "c_raw", "c_loop",
                         "c_getchar", "c_cmp"})
     \/ obs.nread > 0 \/ obs.echoed > 0 \/ obs.keys > 0
     \/ rd.ascii > 0)
        => obs.applies >= 1

\* C14: startup takes the last table entry and applies it to the link
\* before the reader is started and before cli() is entered: no byte is
\* classified or echoed before the first apply is complete.
C14_ApplyBeforeReader ==
    [][/\ AppliedBeforeStart /\ AppliedBeforeStart'
       /\ MainSpawn =>
              /\ obs.applies = 1
              /\ config.baud_index = BAUD_RATES_SIZE - 1
              /\ os.link.speed = Desc(BAUD_RATES_SIZE - 1)
              /\ obs.nread = 0 /\ obs.echoed = 0]_vars

\* The reader has read its first byte, at the rate applied by startup.
C14_Witness ==
    /\ pth.state = "live"
    /\ obs.nread = 1
    /\ obs.applies = 1
    /\ os.link.speed = Desc(BAUD_RATES_SIZE - 1)

\* open() has failed.
OpenFailed == config.fd = -1 /\ ~InStack("main", {"m_open"})

\* C15: a failed open ends the process at once with a failure status and
\* nothing to unwind: no handler installed, no link or console settings
\* read or written, no rate applied, no reader started, no cleanup.  (An
\* operator interrupt in the moment before main returns ends the process
\* by the default action instead.)
C15_OpenFailureIsImmediate ==
    [][/\ OpenFailed' =>
            /\ (stack["main"] = <<"m_open">> \/ stack["main"] = <<"m_end">>)
            /\ stack'["main"] = <<"m_end">> /\ stack'["reader"] = <<>>
            /\ proc' \in {"running", "EXIT_FAILURE", "SIGINT"}
            /\ os'.handlers = {}
            /\ os'.link = OrigLink /\ os'.console = OrigConsole
            /\ ~os'.open /\ ~os'.armed
            /\ config'.termios = ZeroTermios /\ config'.stdinios = ZeroTermios
            /\ obs'.applies = 0 /\ obs'.cleanups = 0 /\ obs'.restores = 0
            /\ obs'.stdins = 0 /\ obs'.closes = 0 /\ obs'.nread = 0
            /\ pth'.state = "none"
       /\ (OpenFailed /\ MainEnd) => proc' = "EXIT_FAILURE"]_vars

\* The open failed and main has returned EXIT_FAILURE.
C15_Witness ==
    /\ config.fd = -1
    /\ proc = "EXIT_FAILURE"
    /\ obs.cleanups = 0

InTable(i) == i \in 0 .. (BAUD_RATES_SIZE - 1)

\* C16: whenever cleanup reads the table at the current index, for the
\* "Detected baud rate" summary and for the configuration block, the index
\* is in [0, N-1], in every interleaving.
C16_TableIndexInRange ==
    /\ \A i \in 1 .. Len(obs.summary) : InTable(obs.summary[i])
    /\ \A i \in 1 .. Len(obs.block) : InTable(obs.block[i])

\* C17: once cleanup has started, the timer stays disarmed, the index no
\* longer changes and no rate is applied any more (so none on the closed
\* descriptor), and the index of the "Detected baud rate" summary is the
\* index of the configuration block that follows it.
C17_ShutdownIsQuiet ==
    [][obs.cleanups > 0 =>
          /\ ~os'.armed
          /\ config'.baud_index = config.baud_index
          /\ obs'.applies = obs.applies
          /\ (Len(obs'.summary) = 1 /\ Len(obs'.block) = 1)
                => obs'.block[1] = obs'.summary[1]]_vars

\* C18: after the scorer has confirmed text, or while an interrupt is
\* pending, the process eventually terminates, whichever thread runs the
\* interrupt handler.
C18_ShutdownTerminates ==
    (obs.confirmed \/ "SIGINT" \in os.pending) ~> (proc # "running")

\* C19: in auto mode, with any wait period, once the reader runs and no
\* text and no interrupt arrive, every index of the table is applied again
\* and again: from every state on, the link is later at each of the rates.
C19_CyclesForever ==
    \A i \in 0 .. (BAUD_RATES_SIZE - 1) :
        (pth.state = "live") ~> (os.link.speed = Desc(i))

\* C20: a read() on the link that returns no byte leaves the scorer's
\* counters, the reader's last-seen timeout count, the index and the mode
\* as they were, echoes nothing, confirms nothing, raises no signal, and
\* leaves the reader at the read() of its loop.
C20_EmptyReadIsNoOp ==
    [][ReadNone =>
          /\ rd' = rd
          /\ config' = config
          /\ obs'.echoed = obs.echoed /\ obs'.nread = obs.nread
          /\ obs'.confirmed = obs.confirmed
          /\ os' = os /\ pth' = pth /\ proc' = proc
          /\ stack' = stack /\ At("reader", "r_read")]_vars

\* A no-byte read happened with a run counted before the last timeout, and
\* the run is still counted.
C20_Witness ==
    /\ obs.idle /\ ~config.manual
    /\ At("reader", "r_read")
    /\ rd.ascii > 0 /\ config.timeout_count > rd.last_timeout_count

====
